---- MODULE Spec2Model ----
(***************************************************************************)
(* State-machine model of telegram_logger's output pipeline:               *)
(* OutputHandler (handlers/output_handler.py).  One action per event       *)
(* handled by OutputHandler.process; collaborator behaviour (store reads,  *)
(* sends, mention lookups, the wall clock) is drawn nondeterministically.  *)
(***************************************************************************)
EXTENDS Integers, Sequences, FiniteSets, TLC

VARIABLES
    ignored_ids,                    \* BaseHandler.ignored_ids (constructor argument)
    forward_user_ids,               \* OutputHandler.forward_user_ids
    forward_group_ids,              \* OutputHandler.forward_group_ids
    deletion_rate_limit_threshold,  \* constructor argument
    deletion_rate_limit_window,     \* constructor argument, seconds
    deletion_pause_duration,        \* constructor argument, seconds
    deletion_timestamps,            \* OutputHandler._deletion_timestamps (deque)
    rate_limit_paused_until,        \* OutputHandler._rate_limit_paused_until
    now,                            \* the wall clock read by datetime.now(timezone.utc)
    db,                             \* the message store read through get_message_by_id
    last,                           \* what the last call of process did (history)
    gateIndex,                      \* history: number of rate-limit checks made so far (capped)
    burstStart,                     \* history: clock value of the first rate-limit check
    cycleNotices,                   \* history: notices attempted since paused_until was last set
    tasks,                          \* the calls of process that have started, in arrival order
    lastCheck,                      \* history: clock value of the latest rate-limit check
    IGNORED_IDS                     \* message_handler.IGNORED_IDS, read from the environment

vars == <<ignored_ids, forward_user_ids, forward_group_ids,
          deletion_rate_limit_threshold, deletion_rate_limit_window,
          deletion_pause_duration, deletion_timestamps, rate_limit_paused_until,
          now, db, last, gateIndex, burstStart, cycleNotices, tasks, lastCheck, IGNORED_IDS>>

config == <<ignored_ids, forward_user_ids, forward_group_ids,
            deletion_rate_limit_threshold, deletion_rate_limit_window,
            deletion_pause_duration, IGNORED_IDS>>

(***************************************************************************)
(* Bounds of the model.                                                    *)
(***************************************************************************)
MaxTime == 5          \* the clock stops advancing here
MaxThreshold == 2     \* largest deletion_rate_limit_threshold tried
MaxWindow == 3        \* largest deletion_rate_limit_window tried
MaxPause == 2         \* largest deletion_pause_duration tried
\* cap of the history counter gateIndex: the checks after the one that follows
\* the triggering check are counted as one
MaxGate == deletion_rate_limit_threshold + 2

\* Python's None.  No Telegram id is 0 and the clock starts at 1, so 0 is free;
\* like None it is falsy in the truth tests of lines 218, 254, 259, 321.
None == 0

Truthy(x) == x # None /\ x # 0

Min(a, b) == IF a <= b THEN a ELSE b

(***************************************************************************)
(* Identifiers.                                                            *)
(***************************************************************************)
UserIds == {1, 2}
PeerChatIds == {3}            \* PeerChat.chat_id of plain groups
PeerChannelIds == {5, 12}     \* PeerChannel.channel_id of channels and supergroups
MsgIds == {1, 2}

GroupChatIds == {-3}          \* marked chat ids of plain groups
ChannelChatIds == {-1005, -10012}   \* marked chat ids of channels and supergroups

(***************************************************************************)
(* The message store.  A record of the store, or Absent for Python's None. *)
(***************************************************************************)
Absent == [present |-> FALSE, id |-> None, chat_id |-> None, media_path |-> FALSE,
           text |-> <<>>]

StoredMessage(id, chat_id, media_path) ==
    [present |-> TRUE, id |-> id, chat_id |-> chat_id, media_path |-> media_path,
     text |-> <<>>]

(***************************************************************************)
(* _should_log_deletion, lines 241-271.                                    *)
(***************************************************************************)
RECURSIVE Pow10(_)
Pow10(n) == IF n = 0 THEN 1 ELSE 10 * Pow10(n - 1)

\* len(str(n)) for n > 0
RECURSIVE StrLen(_)
StrLen(n) == IF n < 10 THEN 1 ELSE 1 + StrLen(n \div 10)

\* int(f"-100{channel_id}"), line 249: the decimal digits of channel_id after "-100"
Minus100Prefix_Arithmetic(channel_id) == -(1000 + channel_id)

Minus100Prefix(channel_id) == -(100 * Pow10(StrLen(channel_id)) + channel_id)

NoPeer == [kind |-> "none", id |-> None]

\* the local chat_id of _should_log_deletion after lines 243-251
ResolveChatId(event) ==
    IF event.chat_id = None /\ event.peer.kind # "none"
    THEN IF event.peer.kind = "channel"
         THEN IF event.peer.id > 0 THEN Minus100Prefix(event.peer.id)
                                   ELSE event.peer.id
         ELSE IF event.peer.kind = "chat" THEN -event.peer.id
         ELSE event.chat_id
    ELSE event.chat_id

\* the rules with rule 2 tried before rule 1
DeletionRules_ForwardFirst(chat_id) ==
    IF Truthy(chat_id) /\ chat_id \in forward_group_ids THEN TRUE
    ELSE IF Truthy(chat_id) /\ chat_id \in ignored_ids THEN FALSE
    ELSE IF chat_id = None THEN TRUE
    ELSE FALSE

\* lines 253-271
DeletionRules(chat_id) ==
    IF Truthy(chat_id) /\ chat_id \in ignored_ids THEN FALSE
    ELSE IF Truthy(chat_id) /\ chat_id \in forward_group_ids THEN TRUE
    ELSE IF chat_id = None THEN TRUE
    ELSE FALSE

ShouldLogDeletion_Unfiltered(event) == TRUE

ShouldLogDeletion(event) == DeletionRules(ResolveChatId(event))

(***************************************************************************)
(* _apply_deletion_rate_limit, lines 313-365.                              *)
(***************************************************************************)
RECURSIVE EvictOld_StrictlyOlder(_, _)
EvictOld_StrictlyOlder(timestamps, cutoff) ==
    IF timestamps # <<>> /\ Head(timestamps) < cutoff
    THEN EvictOld_StrictlyOlder(Tail(timestamps), cutoff)
    ELSE timestamps

\* lines 333-334: popleft while the oldest timestamp is <= cutoff
RECURSIVE EvictOld(_, _)
EvictOld(timestamps, cutoff) ==
    IF timestamps # <<>> /\ Head(timestamps) <= cutoff
    THEN EvictOld(Tail(timestamps), cutoff)
    ELSE timestamps

ExceedsThreshold_Geq(n) == n >= deletion_rate_limit_threshold

\* line 340
ExceedsThreshold(n) == n > deletion_rate_limit_threshold

NoticesOf_AlsoWhenPaused(step) == IF step \in {"triggered", "paused"} THEN 1 ELSE 0

\* lines 349-356: the pause notice is sent by the check that sets the pause
NoticesOf(step) == IF step = "triggered" THEN 1 ELSE 0

ApplyDeletionRateLimit_CountsWhilePaused(timestamps, paused_until, t) ==
    LET cleared == paused_until # None /\ t >= paused_until
        unpaused == IF cleared THEN None ELSE paused_until
        cutoff == t - deletion_rate_limit_window
        kept == Append(EvictOld(timestamps, cutoff), t)
    IN IF paused_until # None /\ t < paused_until
       THEN [allowed |-> FALSE, step |-> "paused", timestamps |-> kept,
             paused_until |-> paused_until, cleared |-> FALSE]
       ELSE IF ExceedsThreshold(Len(kept))
       THEN [allowed |-> FALSE, step |-> "triggered", timestamps |-> kept,
             paused_until |-> t + deletion_pause_duration, cleared |-> cleared]
       ELSE [allowed |-> TRUE, step |-> "admitted", timestamps |-> kept,
             paused_until |-> unpaused, cleared |-> cleared]

StillPaused_Inclusive(paused_until, t) == paused_until # None /\ t <= paused_until

\* line 321: the pause holds while the clock is before paused_until
StillPaused(paused_until, t) == paused_until # None /\ t < paused_until

\* The check at clock value t.  step names the exit taken: "paused" (line 324),
\* "triggered" (line 362) or "admitted" (line 365).
ApplyDeletionRateLimit(timestamps, paused_until, t) ==
    IF StillPaused(paused_until, t)
    THEN [allowed |-> FALSE, step |-> "paused", timestamps |-> timestamps,
          paused_until |-> paused_until, cleared |-> FALSE]
    ELSE LET cleared == paused_until # None /\ t >= paused_until
             unpaused == IF cleared THEN None ELSE paused_until
             cutoff == t - deletion_rate_limit_window
             kept == Append(EvictOld(timestamps, cutoff), t)
         IN IF ExceedsThreshold(Len(kept))
            THEN [allowed |-> FALSE, step |-> "triggered", timestamps |-> kept,
                  paused_until |-> t + deletion_pause_duration, cleared |-> cleared]
            ELSE [allowed |-> TRUE, step |-> "admitted", timestamps |-> kept,
                  paused_until |-> unpaused, cleared |-> cleared]

(***************************************************************************)
(* _get_message_from_db_with_retry, lines 275-309.                         *)
(* e is what the store does during the call: read1 and read2 are "ok" or   *)
(* "raise"; late is a record saved by the archiving handler while the      *)
(* lookup sleeps (Absent: nothing is saved meanwhile).                     *)
(***************************************************************************)
Matches_AnyChat(message, chat_id) == message.present

\* lines 285 and 296
Matches(message, chat_id) ==
    message.present /\ (chat_id = None \/ message.chat_id = chat_id)

RetriesAfter_AnyMiss(message) == TRUE

\* lines 286-291: only a first read that returned nothing goes on to the retry
RetriesAfter(message) == ~message.present

\* first and second name what each read returned: "found", "absent", "raise",
\* or "skipped" for a read that was not made; sleeps counts the waits of
\* retry_delay (line 293) and arrived is the record saved during the wait
GetMessageFromDbWithRetry(message_id, chat_id, store, e) ==
    IF e.read1 = "raise"
    THEN [message |-> Absent, reads |-> 1, sleeps |-> 0, store |-> store,
          first |-> "raise", second |-> "skipped", got |-> Absent,
          arrived |-> Absent]
    ELSE LET m1 == store[message_id] IN
         IF Matches(m1, chat_id)
         THEN [message |-> m1, reads |-> 1, sleeps |-> 0, store |-> store,
               first |-> "found", second |-> "skipped", got |-> m1,
               arrived |-> Absent]
         ELSE IF ~RetriesAfter(m1)
         THEN [message |-> Absent, reads |-> 1, sleeps |-> 0, store |-> store,
               first |-> "found", second |-> "skipped", got |-> m1,
               arrived |-> Absent]
         ELSE LET slept == IF e.late.present
                           THEN [store EXCEPT ![message_id] = e.late]
                           ELSE store
                  m2 == slept[message_id]
                  first == IF m1.present THEN "found" ELSE "absent"
              IN IF e.read2 = "raise"
                 THEN [message |-> Absent, reads |-> 2, sleeps |-> 1, store |-> slept,
                       first |-> first, second |-> "raise", got |-> Absent,
                       arrived |-> e.late]
                 ELSE IF Matches(m2, chat_id)
                 THEN [message |-> m2, reads |-> 2, sleeps |-> 1, store |-> slept,
                       first |-> first, second |-> "found", got |-> m2,
                       arrived |-> e.late]
                 ELSE [message |-> Absent, reads |-> 2, sleeps |-> 1, store |-> slept,
                       first |-> first,
                       second |-> IF m2.present THEN "found" ELSE "absent",
                       got |-> m2, arrived |-> e.late]

(***************************************************************************)
(* _format_output_message, lines 369-493: the text of a log entry.         *)
(* A text is a sequence of runs: n copies of a string ch of w characters.  *)
(***************************************************************************)
Run(ch, n) == [ch |-> ch, n |-> n, w |-> 1]

RECURSIVE TextLen(_)
TextLen(text) ==
    IF text = <<>> THEN 0 ELSE Head(text).n * Head(text).w + TextLen(Tail(text))

\* text[:k] for a text of single characters
RECURSIVE Slice(_, _)
Slice(text, k) ==
    IF text = <<>> \/ k <= 0 THEN <<>>
    ELSE IF Head(text).n <= k
    THEN <<Head(text)>> \o Slice(Tail(text), k - Head(text).n)
    ELSE <<[Head(text) EXCEPT !.n = k]>>

\* line 452: the length above which text_content is cut
BODY_CAP == 3500

\* line 453: the marker appended to a cut text, a literal of 12 characters
TruncationMarker == [ch |-> "... (truncated)", n |-> 1, w |-> 12]

\* lines 452-453
Truncate(text) ==
    IF TextLen(text) > BODY_CAP
    THEN Slice(text, BODY_CAP) \o <<TruncationMarker>>
    ELSE text

MarkdownChars == {"*", "_", "backtick"}

\* line 485: each asterisk, underscore and backtick gets a backslash before it
EscapeMarkdown(text) ==
    [i \in DOMAIN text |-> IF text[i].ch \in MarkdownChars
                           THEN [text[i] EXCEPT !.w = 2]
                           ELSE text[i]]

\* the create_mention calls at 403-405 and 419-421 have no handler of their
\* own: one that raises is caught at line 489, which returns the error string
FormatOutputMessage(event_type, message_data, is_deleted, mention_fails) ==
    IF mention_fails
    THEN [kind |-> "format_error", event_type |-> event_type, id |-> message_data.id]
    ELSE [kind |-> "entry", event_type |-> event_type, id |-> message_data.id,
          body |-> EscapeMarkdown(Truncate(message_data.text))]

ContentUnknownText_MentionAborts(msg_id, chat_id, mention_fails) ==
    IF Truthy(chat_id) /\ mention_fails
    THEN [kind |-> "format_error", event_type |-> "deleted", id |-> msg_id]
    ELSE [kind |-> "content_unknown", event_type |-> "deleted", id |-> msg_id,
          chat |-> IF ~Truthy(chat_id) THEN "none" ELSE "mention"]

\* lines 185-195: the entry for a deleted message the store does not hold; the
\* mention lookup is made only for a known chat id, inside try/except (187-192)
ContentUnknownText(msg_id, chat_id, mention_fails) ==
    [kind |-> "content_unknown", event_type |-> "deleted", id |-> msg_id,
     chat |-> IF ~Truthy(chat_id) THEN "none"
              ELSE IF mention_fails THEN "raw_id" ELSE "mention"]

\* one call of log_sender.send_message / client.send_file
Send(text, file, fails) == [text |-> text, file |-> file, ok |-> ~fails]

PauseNotice == [kind |-> "pause_notice", event_type |-> "deleted", id |-> None]

(***************************************************************************)
(* _process_deleted_message, lines 149-199.                                *)
(***************************************************************************)
StoreAfterLogging_Removes(store, msg_id) == [store EXCEPT ![msg_id] = Absent]

\* lines 165-199: besides the reads of the lookup, the loop body makes no call
\* on self.db; the store is after an id was logged what it was before
StoreAfterLogging(store, msg_id) == store

SendEndsLoop_Guarded(send_fails) == FALSE

\* lines 178-179 and 195-196: the sends of the loop have no handler of their
\* own, an exception from one leaves the loop
SendEndsLoop(send_fails) == send_fails

\* lines 165-199: the loop over deleted_ids from position i on; a send that
\* raises ends the loop (the exception leaves _process_deleted_message)
RECURSIVE LogDeletedIds(_, _, _, _, _)
LogDeletedIds(deleted_ids, i, chat_id, store, envs) ==
    IF i > Len(deleted_ids)
    THEN [sends |-> <<>>, lookups |-> <<>>, reads |-> 0, store |-> store,
          exc |-> FALSE]
    ELSE LET msg_id == deleted_ids[i]
             e == envs[i]
             found == GetMessageFromDbWithRetry(msg_id, chat_id, store, e.lookup)
             text == IF found.message.present
                     THEN FormatOutputMessage("deleted", found.message, TRUE,
                                              e.mention_fails)
                     ELSE ContentUnknownText(msg_id, chat_id, e.mention_fails)
             sent == Send(text, "none", e.send_fails)
             lookup == [id |-> msg_id, expected |-> chat_id, first |-> found.first,
                        second |-> found.second, got |-> found.got,
                        result |-> found.message, reads |-> found.reads,
                        sleeps |-> found.sleeps, arrived |-> found.arrived,
                        mention_failed |-> e.mention_fails]
         IN IF SendEndsLoop(e.send_fails)
            THEN [sends |-> <<sent>>, lookups |-> <<lookup>>, reads |-> found.reads,
                  store |-> StoreAfterLogging(found.store, msg_id), exc |-> TRUE]
            ELSE LET rest == LogDeletedIds(deleted_ids, i + 1, chat_id,
                                           StoreAfterLogging(found.store, msg_id), envs)
                 IN [sends |-> <<sent>> \o rest.sends,
                     lookups |-> <<lookup>> \o rest.lookups,
                     reads |-> found.reads + rest.reads,
                     store |-> rest.store, exc |-> rest.exc]

GateRefuses_Never(allowed) == FALSE

\* lines 156-158: a refused event returns before the loop
GateRefuses(allowed) == ~allowed

RaisedToCaller_NoHandler(exc) == exc

\* process, lines 94-113: every Exception of the branch is caught and logged
RaisedToCaller(exc) == FALSE

\* what a call of process that did nothing leaves in the history
Outcome(type, event) ==
    [type |-> type, event |-> event, passed |-> FALSE, resolved |-> None,
     step |-> "none", time |-> now, paused_before |-> rate_limit_paused_until,
     prev_check |-> lastCheck,
     gate |-> 0, sends |-> <<>>, lookups |-> <<>>, reads |-> 0, fetches |-> 0,
     entered |-> 0, exited |-> 0, steps |-> <<>>, handles |-> <<>>, critical |-> 0,
     mention_failed |-> FALSE, caught |-> FALSE, raised |-> FALSE, saves |-> <<>>]

\* process with a MessageDeleted event (line 100): events are the events that
\* may arrive, perId what the collaborators may do for one message id
ProcessDeleted(events, perId) ==
    \E event \in events :
        IF ~ShouldLogDeletion(event)
        THEN /\ last' = [Outcome("deleted", event) EXCEPT
                            !.resolved = ResolveChatId(event)]
             /\ UNCHANGED <<config, deletion_timestamps, rate_limit_paused_until,
                            now, db, gateIndex, burstStart, cycleNotices, tasks, lastCheck>>
        ELSE LET rl == ApplyDeletionRateLimit(deletion_timestamps,
                                              rate_limit_paused_until, now)
             IN \E notice_fails \in (IF NoticesOf(rl.step) > 0 THEN BOOLEAN ELSE {FALSE}),
                   envs \in (IF GateRefuses(rl.allowed) THEN {<<>>}
                             ELSE [1..Len(event.deleted_ids) -> perId]) :
                LET notices == [k \in 1..NoticesOf(rl.step) |->
                                   Send(PauseNotice, "none", notice_fails)]
                    loop == IF GateRefuses(rl.allowed)
                            THEN [sends |-> <<>>, lookups |-> <<>>, reads |-> 0,
                                  store |-> db, exc |-> FALSE]
                            ELSE LogDeletedIds(event.deleted_ids, 1, event.chat_id,
                                               db, envs)
                IN /\ deletion_timestamps' = rl.timestamps
                   /\ rate_limit_paused_until' = rl.paused_until
                   /\ db' = loop.store
                   /\ gateIndex' = Min(gateIndex + 1, MaxGate)
                   /\ burstStart' = IF burstStart = None THEN now ELSE burstStart
                   /\ cycleNotices' = IF rl.step = "triggered" THEN Len(notices)
                                      ELSE IF rl.cleared THEN 0
                                      ELSE cycleNotices + Len(notices)
                   /\ last' = [Outcome("deleted", event) EXCEPT
                                  !.passed = TRUE,
                                  !.resolved = ResolveChatId(event),
                                  !.step = rl.step,
                                  !.gate = Min(gateIndex + 1, MaxGate),
                                  !.sends = notices \o loop.sends,
                                  !.lookups = loop.lookups,
                                  !.reads = loop.reads,
                                  !.caught = loop.exc,
                                  !.raised = RaisedToCaller(loop.exc)]
                   /\ lastCheck' = now
                   /\ UNCHANGED <<config, now, tasks>>

\* the wall clock advances between events
Tick ==
    /\ now < MaxTime
    /\ now' = now + 1
    /\ UNCHANGED <<config, deletion_timestamps, rate_limit_paused_until, db, last,
                   gateIndex, burstStart, cycleNotices, tasks, lastCheck>>

(***************************************************************************)
(* Deletion events processed concurrently.  Every call of process is a     *)
(* coroutine of one event loop: it runs without interruption from one      *)
(* await that suspends to the next.  tasks holds the calls in the order    *)
(* in which they started.  pc is where a call is suspended: "start"        *)
(* (before the rate-limit check), "notify" (in the notice send of line     *)
(* 351), "logging" (in the loop of lines 165-199: the retry sleep of line  *)
(* 293, a mention lookup or a send) or "done".                             *)
(***************************************************************************)
MaxTasks == 3

NewTask(event) ==
    [event |-> event, pc |-> "start", step |-> "none", gate |-> 0, time |-> None,
     paused_seen |-> None, notices |-> 0, notifiers |-> {}, suspended |-> FALSE,
     late |-> FALSE]

SuspendsBeforeGate_Yes == TRUE

\* lines 84-100, 149-156 and 313-347: process, _process_deleted_message and
\* _apply_deletion_rate_limit hold no await that suspends before the writes
\* of lines 337 and 342
SuspendsBeforeGate == FALSE

\* lines 151-156 and 313-365 run by call k of the calls queue, up to the next
\* suspension: the filter, then the check with its reads and writes
RunGate(k, queue) ==
    LET event == queue[k].event
    IN IF ~ShouldLogDeletion(event)
       THEN /\ tasks' = [queue EXCEPT ![k].pc = "done", ![k].step = "filtered",
                                      ![k].time = now]
            /\ UNCHANGED <<deletion_timestamps, rate_limit_paused_until, gateIndex,
                           burstStart, cycleNotices, lastCheck>>
       ELSE LET rl == ApplyDeletionRateLimit(deletion_timestamps,
                                             rate_limit_paused_until, now)
            IN /\ deletion_timestamps' = rl.timestamps
               /\ rate_limit_paused_until' = rl.paused_until
               /\ gateIndex' = Min(gateIndex + 1, MaxGate)
               /\ burstStart' = IF burstStart = None THEN now ELSE burstStart
               /\ lastCheck' = now
               /\ cycleNotices' = IF rl.step = "triggered" THEN NoticesOf(rl.step)
                                  ELSE IF rl.cleared THEN 0
                                  ELSE cycleNotices + NoticesOf(rl.step)
               /\ tasks' = [queue EXCEPT ![k] =
                     [@ EXCEPT !.pc = IF NoticesOf(rl.step) > 0 THEN "notify"
                                      ELSE IF GateRefuses(rl.allowed) THEN "done"
                                      ELSE "logging",
                               !.step = rl.step,
                               !.gate = Cardinality({j \in DOMAIN queue :
                                                        queue[j].gate > 0}) + 1,
                               !.time = now,
                               !.paused_seen = rate_limit_paused_until,
                               !.notices = NoticesOf(rl.step),
                               !.notifiers = {j \in DOMAIN queue :
                                                 queue[j].pc = "notify"},
                               !.late = queue[k].suspended]]

\* a deletion event arrives: its call of process starts and runs to its first
\* suspension
Arrive(events) ==
    /\ Len(tasks) < MaxTasks
    /\ \E event \in events :
          LET queue == Append(tasks, NewTask(event))
          IN IF SuspendsBeforeGate
             THEN /\ tasks' = [queue EXCEPT ![Len(queue)].suspended = TRUE]
                  /\ UNCHANGED <<deletion_timestamps, rate_limit_paused_until,
                                 gateIndex, burstStart, cycleNotices, lastCheck>>
             ELSE RunGate(Len(queue), queue)
    /\ UNCHANGED <<config, now, db, last>>

\* the event loop resumes a suspended call, which runs to its next suspension:
\* after the notice send the check returns False and the call ends (lines
\* 358-362 and 156-158); the loop of lines 165-199 ends without touching the
\* limiter
Resume ==
    /\ \E k \in DOMAIN tasks :
          /\ tasks[k].pc # "done"
          /\ IF tasks[k].pc = "start"
             THEN RunGate(k, tasks)
             ELSE /\ tasks' = [tasks EXCEPT ![k].pc = "done", ![k].suspended = TRUE]
                  /\ UNCHANGED <<deletion_timestamps, rate_limit_paused_until,
                                 gateIndex, burstStart, cycleNotices, lastCheck>>
    /\ UNCHANGED <<config, now, db, last>>

(***************************************************************************)
(* _should_forward, lines 203-239.                                         *)
(***************************************************************************)
\* line 210: the id returned by self._get_sender_id(message), an input carried
\* by the message
GetSenderId(message) == message.sender_id

ShouldForward_NoIgnoreRule(message) ==
    LET sender_id == GetSenderId(message)
        chat_id == message.chat_id
        is_incoming_private == message.is_private /\ ~message.out
        is_group == message.is_group
    IN IF is_incoming_private /\ sender_id \in forward_user_ids THEN TRUE
       ELSE IF is_group /\ chat_id \in forward_group_ids THEN TRUE
       ELSE FALSE

ShouldForward_AnyPrivateAnyChat(message) ==
    LET sender_id == GetSenderId(message)
        chat_id == message.chat_id
    IN IF sender_id \in ignored_ids THEN FALSE
       ELSE IF Truthy(chat_id) /\ chat_id \in ignored_ids THEN FALSE
       ELSE IF message.is_private /\ sender_id \in forward_user_ids THEN TRUE
       ELSE IF ~message.is_private /\ chat_id \in forward_group_ids THEN TRUE
       ELSE FALSE

ShouldForward(message) ==
    LET sender_id == GetSenderId(message)
        chat_id == message.chat_id
        is_incoming_private == message.is_private /\ ~message.out
        is_group == message.is_group
    IN IF sender_id \in ignored_ids THEN FALSE
       ELSE IF Truthy(chat_id) /\ chat_id \in ignored_ids THEN FALSE
       ELSE IF is_incoming_private /\ sender_id \in forward_user_ids THEN TRUE
       ELSE IF is_group /\ chat_id \in forward_group_ids THEN TRUE
       ELSE FALSE

(***************************************************************************)
(* _send_message_with_media, lines 496-649.                                *)
(* r accumulates what the call did: its sends in order, its store reads,   *)
(* its media fetches, the media contexts it entered and the __exit__ /     *)
(* __aexit__ calls made, and done once a branch has returned.              *)
(* e is what the collaborators do: db_read "ok" | "raise"; file "ok" |     *)
(* "missing" (FileNotFoundError) | "error"; fetch "path" | "empty" |       *)
(* "raise"; aexit_raises; send_fails, the numbers of the send attempts of  *)
(* this call that raise.                                                   *)
(***************************************************************************)
Started == [sends |-> <<>>, steps |-> <<>>, handles |-> <<>>, media_context |-> 0,
            reads |-> 0, fetches |-> 0, entered |-> 0, exited |-> 0, critical |-> 0,
            done |-> FALSE, exc |-> FALSE]

\* steps is the order of what the call did besides sending
Step(r, s) == [r EXCEPT !.steps = Append(@, s)]

SendFails(r, e) == (Len(r.sends) + 1) \in e.send_fails

Sent(r, text, file, e) ==
    [Step(r, IF SendFails(r, e) THEN "send_fail" ELSE "send_ok")
        EXCEPT !.sends = Append(@, Send(text, file, SendFails(r, e)))]

\* handles holds one record per media context the call obtained: whether it
\* was entered and how many times it was exited
Obtained(r, kind, entered) ==
    [r EXCEPT !.handles = Append(@, [kind |-> kind, entered |-> entered, exits |-> 0]),
              !.entered = IF entered THEN @ + 1 ELSE @]

\* __exit__ / __aexit__ of the i-th context
Exit(r, i) == [r EXCEPT !.handles[i].exits = @ + 1, !.exited = @ + 1]

ResetContext_Forgotten(r) == r

\* lines 554 and 617: media_context = None after the exit in the finally clause
ResetContext(r) == [r EXCEPT !.media_context = 0]

\* lines 530-554 and 600-617: the stored media file, opened through
\* retrieve_media_as_file (532) and __enter__ (533), which raises when
\* e.file is not "ok", and sent; the finally clause exits media_context
\* whenever it was assigned, and resets it
StoredAttempt(r, text, e) ==
    LET held(x) == [x EXCEPT !.media_context = Len(x.handles)]
        finally(x) == ResetContext(Exit(x, x.media_context))
    IN IF e.file = "ok"
       THEN LET opened == Step(held(Obtained(r, "file", TRUE)), "stored_open")
                sent == Sent(opened, text, "stored", e)
            IN [finally(sent) EXCEPT !.done = ~SendFails(r, e)]
       ELSE finally(Step(held(Obtained(r, "file", FALSE)),
                         IF e.file = "missing" THEN "stored_missing"
                         ELSE "stored_error"))

DynamicAttempt_NoHandler(r, text, e) ==
    LET fetched == [r EXCEPT !.fetches = @ + 1]
    IN IF e.fetch = "raise"
       THEN [Step(fetched, "fetch_raise") EXCEPT !.done = TRUE, !.exc = TRUE]
       ELSE IF e.fetch = "empty"
       THEN LET got == Step(Obtained(fetched, "fetch", TRUE), "fetch_empty")
            IN Exit(got, Len(got.handles))
       ELSE LET got == Step(Obtained(fetched, "fetch", TRUE), "fetch_path")
                sent == Sent(got, text, "fetched", e)
            IN [Exit(sent, Len(sent.handles)) EXCEPT !.done = ~SendFails(fetched, e)]

\* lines 559-575 and 582-592: async with prepare_media(message); __aenter__
\* raises ("raise"), or yields no path ("empty") or a path that is sent;
\* __aexit__ runs on every way out of the block, and an exception of
\* __aexit__ after the send replaces the return and is caught at 574 / 591
DynamicAttempt(r, text, e) ==
    LET fetched == [r EXCEPT !.fetches = @ + 1]
    IN IF e.fetch = "raise" THEN Step(fetched, "fetch_raise")
       ELSE IF e.fetch = "empty"
       THEN LET got == Step(Obtained(fetched, "fetch", TRUE), "fetch_empty")
            IN Exit(got, Len(got.handles))
       ELSE LET got == Step(Obtained(fetched, "fetch", TRUE), "fetch_path")
                sent == Sent(got, text, "fetched", e)
                left == Exit(sent, Len(sent.handles))
            IN IF e.aexit_raises THEN Step(left, "aexit_raise")
               ELSE [left EXCEPT !.done = ~SendFails(fetched, e)]

\* lines 624-627: the whole text between the marker lines
MediaNotAttached(text) == [kind |-> "media_not_attached", event_type |-> text.event_type,
                           id |-> text.id, text |-> text]

\* lines 634-640: the error report, with text[:500]
CriticalError(text, message) == [kind |-> "critical_error", event_type |-> text.event_type,
                                 id |-> message.id, first500_of |-> text]

OuterExcept_Silent(r, text, message, e) == [r EXCEPT !.done = TRUE]

OuterExcept_Reraise(r, text, message, e) == [r EXCEPT !.done = TRUE, !.exc = TRUE]

\* lines 629-642: the handler of whatever the body raised logs at critical
\* severity (630) and sends the error report; a failure of that send is
\* logged at critical severity too (642)
OuterExcept(r, text, message, e) ==
    LET logged == Step([r EXCEPT !.critical = @ + 1], "critical")
        sent == Sent(logged, CriticalError(text, message), "none", e)
    IN [sent EXCEPT !.critical = IF SendFails(logged, e) THEN @ + 1 ELSE @,
                    !.done = TRUE]

\* lines 622-627, and 629-642 when that send raises
TextFallback(r, text, message, e) ==
    IF r.done THEN r
    ELSE LET sent == Sent(Step(r, "fallback"), MediaNotAttached(text), "none", e)
         IN IF SendFails(r, e) THEN OuterExcept(sent, text, message, e)
            ELSE [sent EXCEPT !.done = TRUE]

\* lines 528-529 and 598-599: the record read from the store has a media path
HasStoredMedia(store, message) ==
    store[message.id].present /\ store[message.id].media_path

\* line 528 / 598: self.db.get_message_by_id(message.id)
DbRead(r, e) ==
    Step([r EXCEPT !.reads = @ + 1], IF e.db_read = "raise" THEN "db_raise" ELSE "db_read")

\* lines 643-649: the outer finally exits media_context if it is still set
OuterFinally(r) == IF r.media_context # 0 THEN Exit(r, r.media_context) ELSE r

Deliver(text, message, store, e) ==
    OuterFinally(
    IF ~message.media
    THEN \* lines 513-517
         LET sent == Sent(Started, text, "none", e)
         IN IF SendFails(Started, e) THEN OuterExcept(sent, text, message, e)
            ELSE [sent EXCEPT !.done = TRUE]
    ELSE IF message.is_sticker
    THEN \* lines 525-577
         LET read == DbRead(Started, e)
         IN IF e.db_read = "raise" THEN OuterExcept(read, text, message, e)
            ELSE LET stored == IF HasStoredMedia(store, message)
                               THEN StoredAttempt(read, text, e)
                               ELSE read
                     fetched == IF stored.done THEN stored
                                ELSE DynamicAttempt(stored, text, e)
                 IN TextFallback(fetched, text, message, e)
    ELSE IF message.noforwards
    THEN \* lines 580-593
         TextFallback(DynamicAttempt(Started, text, e), text, message, e)
    ELSE \* lines 596-620
         LET read == DbRead(Started, e)
         IN IF e.db_read = "raise" THEN OuterExcept(read, text, message, e)
            ELSE TextFallback(IF HasStoredMedia(store, message)
                              THEN StoredAttempt(read, text, e)
                              ELSE read,
                              text, message, e))

(***************************************************************************)
(* process, lines 84-113, by event type.                                   *)
(***************************************************************************)
\* _process_new_message, lines 117-127
ProcessNew(messages, mentions, deliveries) ==
    \E message \in messages :
        /\ IF ~ShouldForward(message)
           THEN last' = Outcome("new", message)
           ELSE \E mention_fails \in mentions :
                \E r \in {Deliver(FormatOutputMessage("new", message, FALSE, mention_fails),
                                  message, db, e) : e \in deliveries[message]} :
                last' = [Outcome("new", message) EXCEPT
                            !.passed = TRUE,
                            !.mention_failed = mention_fails,
                            !.sends = r.sends,
                            !.reads = r.reads,
                            !.fetches = r.fetches,
                            !.entered = r.entered,
                            !.exited = r.exited,
                            !.steps = r.steps,
                            !.handles = r.handles,
                            !.critical = r.critical,
                            !.caught = r.exc,
                            !.raised = RaisedToCaller(r.exc)]
        /\ UNCHANGED <<config, deletion_timestamps, rate_limit_paused_until, now, db,
                       gateIndex, burstStart, cycleNotices, tasks, lastCheck>>

EditedSend_WithMedia(text, message, store, send_fails) ==
    Deliver(text, message, store,
            [db_read |-> "ok", file |-> "ok", fetch |-> "path", aexit_raises |-> FALSE,
             send_fails |-> IF send_fails THEN {1} ELSE {}])

\* lines 139-146: the call of _send_message_with_media is commented out (line
\* 142); the formatted text goes out in one send_message without a file,
\* which is not guarded
EditedSend(text, message, store, send_fails) ==
    [Started EXCEPT !.sends = <<Send(text, "none", send_fails)>>,
                    !.done = TRUE,
                    !.exc = send_fails]

\* _process_edited_message, lines 129-146
ProcessEdited(messages, mentions) ==
    \E message \in messages :
        /\ IF ~ShouldForward(message)
           THEN last' = Outcome("edited", message)
           ELSE \E mention_fails \in mentions, send_fails \in BOOLEAN :
                LET text == FormatOutputMessage("edited", message, FALSE, mention_fails)
                    r == EditedSend(text, message, db, send_fails)
                IN last' = [Outcome("edited", message) EXCEPT
                               !.passed = TRUE,
                               !.mention_failed = mention_fails,
                               !.sends = r.sends,
                               !.reads = r.reads,
                               !.fetches = r.fetches,
                               !.entered = r.entered,
                               !.exited = r.exited,
                               !.steps = r.steps,
                               !.handles = r.handles,
                               !.critical = r.critical,
                               !.caught = r.exc,
                               !.raised = RaisedToCaller(r.exc)]
        /\ UNCHANGED <<config, deletion_timestamps, rate_limit_paused_until, now, db,
                       gateIndex, burstStart, cycleNotices, tasks, lastCheck>>

\* lines 101-103: any other event type is ignored
ProcessOther ==
    /\ last' = Outcome("other", [kind |-> "other"])
    /\ UNCHANGED <<config, deletion_timestamps, rate_limit_paused_until, now, db,
                   gateIndex, burstStart, cycleNotices, tasks, lastCheck>>

(***************************************************************************)
(* NewMessageHandler of message_handler.py.  An event carries is_new       *)
(* (whether it is an events.NewMessage.Event), the id, chat id and text of *)
(* its message, from_id (what self._get_sender_id returns for it) and      *)
(* whether the message has media.                                          *)
(***************************************************************************)
\* line 14: the log chat of the module, a channel
LOG_CHAT_ID == -10012

\* line 15: the value of IGNORED_IDS when the environment does not set it
DefaultIgnoredIds == {-10000}

\* BaseHandler.my_id, the account the client is logged in as
my_id == 2

\* the texts that re.match accepts at lines 58-64: a t.me link, with or without
\* the scheme and the c/ part, or a tg://openmessage link, at the start of the
\* text
LinkTexts == {"https://t.me/c/123/45", "t.me/name/7",
              "tg://openmessage?user_id=1&message_id=2"}

MatchesLink(text) == text \in LinkTexts

\* _is_special_link_message, lines 52-69
IsSpecialLinkMessage(event) ==
    /\ event.chat_id = LOG_CHAT_ID
    /\ event.from_id = my_id
    /\ event.text # ""
    /\ MatchesLink(event.text)

\* _should_ignore_message, lines 45-49: the ids tested are those of the module's
\* IGNORED_IDS
ShouldIgnoreMessage(event) ==
    \/ IsSpecialLinkMessage(event)
    \/ event.from_id \in IGNORED_IDS
    \/ event.chat_id \in IGNORED_IDS

\* _create_message_object, lines 71-99: a failure to save the media is caught
\* (lines 81-85) and leaves media unset
CreateMessageObject(event, media_fails) ==
    [id |-> event.id, from_id |-> event.from_id, chat_id |-> event.chat_id,
     msg_text |-> event.text, media |-> event.media /\ ~media_fails,
     created_time |-> now, edited_time |-> None]

\* handle_new_message, lines 25-43: saves is the sequence of the records handed
\* to self.db.save_message
HandleNewMessage(events) ==
    /\ \E event \in events :
       \E media_fails \in (IF event.media THEN BOOLEAN ELSE {FALSE}) :
          last' = IF ~event.is_new
                  THEN Outcome("archive", event)
                  ELSE IF ShouldIgnoreMessage(event)
                  THEN Outcome("archive", event)
                  ELSE [Outcome("archive", event) EXCEPT
                           !.passed = TRUE,
                           !.saves = <<CreateMessageObject(event, media_fails)>>]
    /\ UNCHANGED <<config, deletion_timestamps, rate_limit_paused_until, now, db,
                   gateIndex, burstStart, cycleNotices, tasks, lastCheck>>

(***************************************************************************)
(* Inputs.                                                                 *)
(***************************************************************************)
Peers == {NoPeer} \cup {[kind |-> "user", id |-> u] : u \in UserIds}
                  \cup {[kind |-> "chat", id |-> g] : g \in PeerChatIds}
                  \cup {[kind |-> "channel", id |-> c] : c \in PeerChannelIds}

DeletedEvent(deleted_ids, chat_id, peer) ==
    [deleted_ids |-> deleted_ids, chat_id |-> chat_id, peer |-> peer]

NoFailure == [lookup |-> [read1 |-> "ok", late |-> Absent, read2 |-> "ok"],
              mention_fails |-> FALSE, send_fails |-> FALSE]

\* after __init__ (lines 45-59) with the given constructor arguments and store
InitWith(ignored, users, groups, threshold, window, pause, store) ==
    /\ ignored_ids = ignored
    /\ forward_user_ids = users
    /\ forward_group_ids = groups
    /\ deletion_rate_limit_threshold = threshold
    /\ deletion_rate_limit_window = window
    /\ deletion_pause_duration = pause
    /\ deletion_timestamps = <<>>
    /\ rate_limit_paused_until = None
    /\ now = 1
    /\ db = store
    /\ lastCheck = None
    /\ last = Outcome("none", [kind |-> "none"])
    /\ gateIndex = 0
    /\ burstStart = None
    /\ cycleNotices = 0
    /\ tasks = <<>>

Store0 == [m \in MsgIds |-> IF m = 1 THEN StoredMessage(1, -3, FALSE) ELSE Absent]

(***************************************************************************)
(* SpecRate: the rate limiter under every small configuration; deletion    *)
(* events of one forwarded group and of an unknown chat, notices that may  *)
(* fail.                                                                   *)
(***************************************************************************)
RateEvents == {DeletedEvent(<<1>>, -3, NoPeer), DeletedEvent(<<1, 2>>, None, NoPeer),
               DeletedEvent(<<2>>, 1, NoPeer)}

InitRate ==
    \E threshold \in 1..MaxThreshold, window \in 1..MaxWindow, pause \in 1..MaxPause :
        /\ InitWith({}, {}, {-3}, threshold, window, pause, Store0)
        /\ IGNORED_IDS = DefaultIgnoredIds

NextRate ==
    \/ ProcessDeleted(RateEvents, {NoFailure})
    \/ Tick

SpecRate == InitRate /\ [][NextRate]_vars

(***************************************************************************)
(* SpecConc: up to MaxTasks deletion events in flight at once under every  *)
(* small configuration of the limiter, the clock advancing at any point;   *)
(* deletion events of the forwarded group and of a chat that is filtered.  *)
(***************************************************************************)
ConcEvents == {DeletedEvent(<<1>>, -3, NoPeer), DeletedEvent(<<2>>, 1, NoPeer)}

NextConc ==
    \/ Arrive(ConcEvents)
    \/ Resume
    \/ Tick

SpecConc == InitRate /\ [][NextConc]_vars

(***************************************************************************)
(* SpecArchive: the archiving handler under every small choice of the ids  *)
(* it was constructed with and of the ids of the environment; events of a  *)
(* private chat, a group and the log chat, with plain and link texts.      *)
(***************************************************************************)
ArchiveTexts == LinkTexts \cup {"", "hello", "see https://t.me/c/123/45"}

\* NewMessage events of every kind, and events of another type
ArchiveEvents ==
    {e \in [is_new : BOOLEAN, id : MsgIds, chat_id : {1, -3, LOG_CHAT_ID},
            from_id : UserIds, text : ArchiveTexts, media : BOOLEAN] :
        e.is_new \/ (e.id = 1 /\ e.text = "hello" /\ ~e.media)}

InitArchive ==
    \E ignored \in {{}, {1}, {-3}}, env \in {DefaultIgnoredIds, {1}, {-3}} :
        /\ InitWith(ignored, {1}, {-3}, 2, 3, 1, Store0)
        /\ IGNORED_IDS = env

NextArchive ==
    \/ HandleNewMessage(ArchiveEvents)

SpecArchive == InitArchive /\ [][NextArchive]_vars

(***************************************************************************)
(* Messages of NewMessage and MessageEdited events.  kind is the kind of   *)
(* the chat: is_private holds for "private", is_group for "group" and      *)
(* "megagroup" (line 225), neither for a broadcast "channel".              *)
(***************************************************************************)
ChatKind(chat_id) ==
    IF chat_id \in UserIds THEN "private"
    ELSE IF chat_id \in GroupChatIds THEN "group"
    ELSE IF chat_id = -10012 THEN "megagroup"
    ELSE "channel"

Message(id, sender_id, chat_id, out, media, is_sticker, noforwards) ==
    [id |-> id, sender_id |-> sender_id, chat_id |-> chat_id,
     kind |-> ChatKind(chat_id),
     is_private |-> ChatKind(chat_id) = "private",
     is_group |-> ChatKind(chat_id) \in {"group", "megagroup"},
     out |-> out, media |-> media, is_sticker |-> is_sticker,
     noforwards |-> noforwards, text |-> <<>>]

\* a private chat's id is the other party's id: the sender of an incoming
\* message, never the sender of an outgoing one
SenderFits(sender_id, chat_id, out) ==
    chat_id \in UserIds => (out <=> chat_id # sender_id)

TextMessages ==
    {Message(1, s, c, out, FALSE, FALSE, FALSE) :
        <<s, c, out>> \in {x \in (UserIds \cup {-1005}) \X
                                 (UserIds \cup GroupChatIds \cup ChannelChatIds) \X
                                 BOOLEAN :
                              /\ SenderFits(x[1], x[2], x[3])
                              /\ x[1] \notin UserIds => x[1] = x[2]}}

(***************************************************************************)
(* SpecFilter: the filter rules under every small rule set; messages and   *)
(* deletion events of every kind of chat, collaborators that do not fail.  *)
(***************************************************************************)
FilterDeletedEvents ==
    {DeletedEvent(<<1>>, c, p) : c \in {None, 1, -3, -1005}, p \in Peers}

NoDeliveryFailure ==
    {[db_read |-> "ok", file |-> "ok", fetch |-> "path", aexit_raises |-> FALSE,
      send_fails |-> {}]}

InitFilter ==
    \E ignored \in SUBSET {1, -3}, users \in SUBSET {1, 2},
       groups \in SUBSET {-3, -1005, -10012} :
        /\ InitWith(ignored, users, groups, 2, 3, 1, Store0)
        /\ IGNORED_IDS = DefaultIgnoredIds

NextFilter ==
    \/ ProcessNew(TextMessages, {FALSE}, [m \in TextMessages |-> NoDeliveryFailure])
    \/ ProcessEdited(TextMessages, {FALSE})
    \/ ProcessDeleted(FilterDeletedEvents, {NoFailure})

SpecFilter == InitFilter /\ [][NextFilter]_vars

(***************************************************************************)
(* SpecFormat: the formatter on texts around the length cap, of plain and  *)
(* of Markdown characters, for live messages and for stored ones; mention  *)
(* lookups that may fail.                                                  *)
(***************************************************************************)
TextLens == {1, BODY_CAP - 1, BODY_CAP, BODY_CAP + 1}

Chars == {"a"} \cup MarkdownChars

Texts ==
    {<<>>}
    \cup {<<Run(c, n)>> : c \in Chars, n \in TextLens}
    \cup {<<Run(x[1], BODY_CAP - 1), Run(x[2], 2)>> : x \in {<<"a", "*">>, <<"*", "a">>}}

WithText(message, text) == [message EXCEPT !.text = text]

TextfulMessages ==
    {WithText(Message(1, x[1], x[2], FALSE, FALSE, FALSE, FALSE), t) :
        x \in {<<1, 1>>, <<2, -3>>}, t \in Texts}

StoredTexts == {<<Run(c, n)>> : c \in {"a", "*"}, n \in {BODY_CAP, BODY_CAP + 1}}

FormatFailures == {NoFailure, [NoFailure EXCEPT !.mention_fails = TRUE]}

FormatDeletedEvents == {DeletedEvent(<<m>>, -3, NoPeer) : m \in MsgIds}

InitFormat ==
    \E t \in StoredTexts :
        /\ InitWith({}, {1}, {-3}, 2, 3, 1,
                    [m \in MsgIds |-> IF m = 1
                                      THEN WithText(StoredMessage(1, -3, FALSE), t)
                                      ELSE Absent])
        /\ IGNORED_IDS = DefaultIgnoredIds

NextFormat ==
    \/ ProcessNew(TextfulMessages, BOOLEAN, [m \in TextfulMessages |-> NoDeliveryFailure])
    \/ ProcessEdited(TextfulMessages, BOOLEAN)
    \/ ProcessDeleted(FormatDeletedEvents, FormatFailures)

SpecFormat == InitFormat /\ [][NextFormat]_vars

(***************************************************************************)
(* Spec: one rule set, every event type, collaborators that may fail at    *)
(* every call.                                                             *)
(***************************************************************************)
Store1 == [m \in MsgIds |-> IF m = 1 THEN StoredMessage(1, -3, TRUE) ELSE Absent]

\* a forwarded private message of every media class, and one that is not forwarded
MediaMessages ==
    {Message(m, 1, 1, FALSE, x[1], x[2], x[3]) :
        m \in MsgIds,
        x \in {<<FALSE, FALSE, FALSE>>, <<TRUE, TRUE, FALSE>>,
               <<TRUE, FALSE, TRUE>>, <<TRUE, FALSE, FALSE>>}}
    \cup {Message(1, 1, 1, FALSE, TRUE, TRUE, TRUE),
          Message(1, 2, 2, FALSE, TRUE, FALSE, FALSE)}

\* the sends of one call that raise, by position; a last send is only made
\* after the one before it raised
FailingSends(n) == {f \in SUBSET (1..n) : n \in f => (n - 1) \in f}

DeliveryFailures(message) ==
    IF ~message.media
    THEN [db_read : {"ok"}, file : {"ok"}, fetch : {"path"}, aexit_raises : {FALSE},
          send_fails : FailingSends(2)]
    ELSE IF message.is_sticker
    THEN [db_read : {"ok", "raise"}, file : {"ok", "missing"},
          fetch : {"path", "empty", "raise"}, aexit_raises : {FALSE},
          send_fails : {f \in FailingSends(4) : 4 \in f => 2 \in f}]
    ELSE IF message.noforwards
    THEN [db_read : {"ok"}, file : {"ok"}, fetch : {"path", "empty", "raise"},
          aexit_raises : BOOLEAN, send_fails : FailingSends(3)]
    ELSE [db_read : {"ok", "raise"}, file : {"ok", "missing", "error"},
          fetch : {"path"}, aexit_raises : {FALSE}, send_fails : FailingSends(3)]

\* records of another chat, or of the same one, that may be saved late
LateRecords == {Absent} \cup {StoredMessage(2, c, FALSE) : c \in {-3, -1005}}

LookupFailures ==
    {[read1 |-> "ok", late |-> Absent, read2 |-> "ok"],
     [read1 |-> "raise", late |-> Absent, read2 |-> "ok"],
     [read1 |-> "ok", late |-> Absent, read2 |-> "raise"]}
    \cup {[read1 |-> "ok", late |-> l, read2 |-> "ok"] : l \in LateRecords}

PerIdFailures ==
    [lookup : LookupFailures, mention_fails : BOOLEAN, send_fails : BOOLEAN]

DeletedEvents ==
    {DeletedEvent(ids, c, NoPeer) : ids \in {<<1>>, <<2>>, <<2, 1>>},
                                    c \in {None, -3, -1005, 1}}

Init ==
    /\ InitWith({}, {1}, {-3, -1005}, 1, 2, 1, Store1)
    /\ IGNORED_IDS = DefaultIgnoredIds

Next ==
    \/ ProcessNew(MediaMessages, BOOLEAN, [m \in MediaMessages |-> DeliveryFailures(m)])
    \/ ProcessEdited(MediaMessages, BOOLEAN)
    \/ ProcessDeleted(DeletedEvents, PerIdFailures)
    \/ ProcessOther

Spec == Init /\ [][Next]_vars

(***************************************************************************)
(* Properties of the rate limiter (SpecRate).                              *)
(***************************************************************************)
PauseNoticesIn(sends) ==
    Cardinality({k \in 1..Len(sends) : sends[k].text.kind = "pause_notice"})

\* the last call of process was a deletion event that reached the rate limiter
Gated == last.type = "deleted" /\ last.passed

\* what C1 says of the gated event number last.gate of a burst
BurstRule ==
    /\ (last.gate <= deletion_rate_limit_threshold => last.step = "admitted")
    /\ (last.gate > deletion_rate_limit_threshold => last.step # "admitted")
    /\ (last.gate = deletion_rate_limit_threshold + 1 =>
            last.step = "triggered" /\ PauseNoticesIn(last.sends) = 1)
    /\ (/\ last.gate > deletion_rate_limit_threshold + 1
        /\ last.paused_before # None
        /\ last.time < last.paused_before
        => last.step = "paused")

C2_AtMostThresholdPlusOne ==
    (Gated /\ last.step = "triggered") =>
        Len(deletion_timestamps) <= deletion_rate_limit_threshold + 1

\* C3: while pausedUntil is set exactly one pause notice has been attempted
\* since it was set, none while it is unset, and a check refused by the
\* cooldown sends nothing.
C3_OneNoticePerPause ==
    /\ (rate_limit_paused_until # None => cycleNotices = 1)
    /\ (rate_limit_paused_until = None => cycleNotices = 0)
    /\ (Gated /\ last.step = "paused" => last.sends = <<>>)

\* reached: a check refused inside the cooldown, after the cycle's one notice
C3_Witness ==
    /\ Gated
    /\ last.step = "paused"
    /\ last.time < rate_limit_paused_until
    /\ cycleNotices = 1

(***************************************************************************)
(* Properties of process (Spec).                                           *)
(***************************************************************************)
\* C4: no call of process raises to its caller, whatever the event type and
\* whichever collaborator calls fail.
C4_ProcessNeverRaises == ~last.raised

\* reached: an edit whose unguarded send raised, caught by process
C4_Witness ==
    /\ last.type = "edited"
    /\ last.passed
    /\ ~last.sends[1].ok
    /\ last.caught
    /\ ~last.raised

\* C9: a deletion event refused by the rate limiter reads nothing from the
\* store and logs none of its ids; its only possible send is the pause notice
\* of the check that set the pause.
C9_RefusedEventDropped ==
    (Gated /\ last.step \in {"paused", "triggered"}) =>
        /\ last.reads = 0
        /\ last.lookups = <<>>
        /\ Len(last.sends) = PauseNoticesIn(last.sends)
        /\ Len(last.sends) = (IF last.step = "triggered" THEN 1 ELSE 0)

\* reached: an event carrying two ids is refused by the check that sets the pause
C9_Witness ==
    /\ Gated
    /\ last.step = "triggered"
    /\ Len(last.event.deleted_ids) = 2
    /\ Len(last.sends) = 1
    /\ last.reads = 0

FitsExpected(record, expected) == expected = None \/ record.chat_id = expected

\* C10: for every lookup made for a deletion event, in terms of what the store
\* returned: a record on the first read that fits the expected chat id is
\* returned; so is one on the second read after an absent first read; absent
\* twice is NotFound; a record of another chat than the expected one is NotFound.
C10_RetryingLookup ==
    \A k \in 1..Len(last.lookups) :
        LET l == last.lookups[k] IN
        /\ (l.first = "found" /\ FitsExpected(l.got, l.expected)
                => l.result = l.got /\ l.result.present)
        /\ (l.first = "absent" /\ l.second = "found" /\ FitsExpected(l.got, l.expected)
                => l.result = l.got /\ l.result.present)
        /\ (l.first = "absent" /\ l.second = "absent" => ~l.result.present)
        /\ (l.got.present /\ l.expected # None /\ l.got.chat_id # l.expected
                => ~l.result.present)

\* reached: one event with expected chat id -3 whose first id is found on the
\* second read only and whose second id is found on the first read
C10_Witness ==
    /\ last.type = "deleted"
    /\ Len(last.lookups) = 2
    /\ last.lookups[1].expected = -3
    /\ last.lookups[1].first = "absent"
    /\ last.lookups[1].second = "found"
    /\ last.lookups[1].result.present
    /\ last.lookups[2].first = "found"
    /\ last.lookups[2].second = "skipped"
    /\ last.lookups[2].result.present

(***************************************************************************)
(* Properties of the filter rules (SpecFilter).                            *)
(***************************************************************************)
\* the last call of process handled a new or an edited message
Routed == last.type \in {"new", "edited"}

\* at least one send to the destination was attempted
Forwarded == last.sends # <<>>

NotIgnored(message) ==
    message.sender_id \notin ignored_ids /\ message.chat_id \notin ignored_ids

\* C5 as stated: a new or edited message is forwarded iff neither sender nor
\* chat is ignored and it is a private message from a user in forwardUserIds
\* or a group or channel message from a chat in forwardGroupIds.
C5_ForwardRuleAsStated ==
    Routed =>
        (Forwarded <=>
            /\ NotIgnored(last.event)
            /\ \/ /\ last.event.kind = "private"
                  /\ last.event.sender_id \in forward_user_ids
               \/ /\ last.event.kind \in {"group", "megagroup", "channel"}
                  /\ last.event.chat_id \in forward_group_ids)

\* C5 amended: ... and it is an incoming private message (not one sent by the
\* account itself) from a user in forwardUserIds, or a message of a group or
\* supergroup (not of a broadcast channel) whose chat is in forwardGroupIds.
C5_ForwardRule ==
    Routed =>
        (Forwarded <=>
            /\ NotIgnored(last.event)
            /\ \/ /\ last.event.kind = "private"
                  /\ ~last.event.out
                  /\ last.event.sender_id \in forward_user_ids
               \/ /\ last.event.kind \in {"group", "megagroup"}
                  /\ last.event.chat_id \in forward_group_ids)

\* reached: an edited supergroup message forwarded by the group rule alone
C5_Witness ==
    /\ last.type = "edited"
    /\ last.event.kind = "megagroup"
    /\ last.event.sender_id \notin forward_user_ids
    /\ Forwarded

\* C6: a new or edited message whose sender or chat is ignored is never
\* forwarded, whatever the forward sets hold; an incoming private message from
\* a user in forwardUserIds who is not ignored is forwarded.
C6_IgnoreTakesPrecedence ==
    Routed =>
        /\ (~NotIgnored(last.event) => ~Forwarded)
        /\ (/\ last.event.kind = "private"
            /\ ~last.event.out
            /\ last.event.sender_id \in forward_user_ids
            /\ last.event.sender_id \notin ignored_ids
            => Forwarded)

\* reached: an incoming private message from a user both ignored and listed in
\* forwardUserIds, not forwarded
C6_Witness ==
    /\ Routed
    /\ last.event.kind = "private"
    /\ ~last.event.out
    /\ last.event.sender_id \in forward_user_ids \cap ignored_ids
    /\ ~Forwarded

\* C7: the deletion decision is false when the resolved chat id is ignored,
\* else true when it is in forwardGroupIds, true when it is unknown, and false
\* when it is known and in neither set.
C7_DeletionDecision ==
    last.type = "deleted" =>
        /\ (last.resolved # None /\ last.resolved \in ignored_ids => ~last.passed)
        /\ (/\ last.resolved # None
            /\ last.resolved \notin ignored_ids
            /\ last.resolved \in forward_group_ids
            => last.passed)
        /\ (last.resolved = None => last.passed)
        /\ (/\ last.resolved # None
            /\ last.resolved \notin ignored_ids
            /\ last.resolved \notin forward_group_ids
            => ~last.passed)

\* reached: a deletion in a chat that is both ignored and in forwardGroupIds,
\* not logged
C7_Witness ==
    /\ last.type = "deleted"
    /\ last.resolved \in ignored_ids \cap forward_group_ids
    /\ ~last.passed

\* the decimal digits of n >= 0
RECURSIVE Digits(_)
Digits(n) == IF n < 10 THEN <<n>> ELSE Append(Digits(n \div 10), n % 10)

\* C8: the chat id of a deletion event is the event's own when it has one;
\* else for a channel peer c it is negative with the digits 1 0 0 followed by
\* the digits of c, for a plain-group peer g it is -g; else it is unknown.
C8_ChatIdResolution ==
    last.type = "deleted" =>
        LET ev == last.event IN
        /\ (ev.chat_id # None => last.resolved = ev.chat_id)
        /\ (ev.chat_id = None /\ ev.peer.kind = "channel"
                => /\ last.resolved < 0
                   /\ Digits(-last.resolved) = <<1, 0, 0>> \o Digits(ev.peer.id))
        /\ (ev.chat_id = None /\ ev.peer.kind = "chat" => last.resolved = -ev.peer.id)
        /\ (ev.chat_id = None /\ ev.peer.kind \in {"none", "user"}
                => last.resolved = None)

\* reached: a deletion without chat id in channel 12, resolved to -10012 and
\* logged because that id is in forwardGroupIds
C8_Witness ==
    /\ last.type = "deleted"
    /\ last.event.chat_id = None
    /\ last.event.peer = [kind |-> "channel", id |-> 12]
    /\ last.resolved = -10012
    /\ last.passed

\* C11: every lookup makes at most two store reads: two, with one wait between
\* them, when the first read returns nothing; one, with no wait, when the first
\* read returns a record (of the expected chat or of another) or raises.
C11_AtMostTwoReads ==
    \A k \in 1..Len(last.lookups) :
        LET l == last.lookups[k] IN
        /\ l.reads \in {1, 2}
        /\ (l.first = "absent"
                => l.reads = 2 /\ l.sleeps = 1 /\ l.second # "skipped")
        /\ (l.first \in {"found", "raise"}
                => l.reads = 1 /\ l.sleeps = 0 /\ l.second = "skipped")

\* reached: one event whose first lookup reads twice and finds nothing and
\* whose second lookup reads once
C11_Witness ==
    /\ last.type = "deleted"
    /\ Len(last.lookups) = 2
    /\ last.lookups[1].first = "absent"
    /\ last.lookups[1].second = "absent"
    /\ last.lookups[1].reads = 2
    /\ last.lookups[2].first = "found"
    /\ last.lookups[2].reads = 1
    /\ last.reads = 3

(***************************************************************************)
(* Properties of _send_message_with_media (Spec).                          *)
(***************************************************************************)
\* the last call of process delivered a new message that carries media
Delivered == last.type = "new" /\ last.passed /\ last.event.media

\* the position of step s in the steps of the last call, 0 if it did not happen
StepAt(s) ==
    IF \E i \in 1..Len(last.steps) : last.steps[i] = s
    THEN CHOOSE i \in 1..Len(last.steps) : last.steps[i] = s
    ELSE 0

FetchSteps == {"fetch_raise", "fetch_empty", "fetch_path"}

\* a text-only send carrying the media-not-attached marker was attempted
FallbackAttempted ==
    \E k \in 1..Len(last.sends) :
        last.sends[k].text.kind = "media_not_attached" /\ last.sends[k].file = "none"

\* a send with an attachment succeeded
AttachmentSent ==
    \E k \in 1..Len(last.sends) : last.sends[k].file # "none" /\ last.sends[k].ok

\* C12: for a sticker whose stored file is missing, the next thing deliver does
\* is the dynamic fetch; when the fetch raises or yields nothing the text-only
\* fallback is sent; and no exception leaves deliver.
C12_StickerMissingFile ==
    (Delivered /\ last.event.is_sticker /\ StepAt("stored_missing") > 0) =>
        LET i == StepAt("stored_missing") IN
        /\ i < Len(last.steps)
        /\ last.steps[i + 1] \in FetchSteps
        /\ last.fetches = 1
        /\ (last.steps[i + 1] \in {"fetch_raise", "fetch_empty"} => FallbackAttempted)
        /\ (~AttachmentSent => FallbackAttempted)
        /\ ~last.caught
        /\ ~last.raised

\* reached: stored file missing, the fetch raises, the fallback is sent
C12_Witness ==
    /\ Delivered
    /\ last.event.is_sticker
    /\ StepAt("stored_missing") > 0
    /\ StepAt("fetch_raise") = StepAt("stored_missing") + 1
    /\ Len(last.sends) = 1
    /\ last.sends[1].text.kind = "media_not_attached"
    /\ last.sends[1].ok

\* the dynamic fetch of the last call raised or yielded nothing
FetchFailedAt == IF StepAt("fetch_raise") > 0 THEN StepAt("fetch_raise")
                 ELSE StepAt("fetch_empty")

\* C13: when the dynamic fetch raises or yields nothing, for a restricted
\* message and for a sticker, deliver next reads the ordinary stored media
\* reference, and sends text with that attachment when the store holds one,
\* before the text-only fallback.
C13_FetchFailureFallsToStoredMedia ==
    (Delivered /\ FetchFailedAt > 0) =>
        /\ FetchFailedAt < Len(last.steps)
        /\ last.steps[FetchFailedAt + 1] \in {"db_read", "db_raise"}
        /\ (HasStoredMedia(db, last.event) /\ last.steps[FetchFailedAt + 1] = "db_read"
                => \E k \in 1..Len(last.sends) : last.sends[k].file = "stored")

\* C14: for every delivered message with media, whenever no send with an
\* attachment succeeded, the whole formatted text is sent alone under the
\* media-not-attached marker; so at least one send is attempted.
C14_FallbackCarriesWholeText ==
    (Delivered /\ ~AttachmentSent) =>
        /\ last.sends # <<>>
        /\ \E k \in 1..Len(last.sends) :
              /\ last.sends[k].file = "none"
              /\ last.sends[k].text.kind = "media_not_attached"
              /\ last.sends[k].text.text.id = last.event.id

\* the position in sends of the text-only fallback send that raised, 0 if none
FailedFallbackAt ==
    LET failed(k) == /\ last.sends[k].text.kind = "media_not_attached"
                     /\ ~last.sends[k].ok
    IN IF \E k \in 1..Len(last.sends) : failed(k)
       THEN CHOOSE k \in 1..Len(last.sends) : failed(k)
       ELSE 0

\* C15: when the text-only fallback send raises, the failure is logged at
\* critical severity and deliver returns without raising: no exception reaches
\* process or its caller, and nothing but the error report is sent afterwards.
C15_FallbackFailureLoggedCritical ==
    (Delivered /\ FailedFallbackAt > 0) =>
        /\ last.critical >= 1
        /\ StepAt("critical") > StepAt("fallback")
        /\ ~last.caught
        /\ ~last.raised
        /\ \A k \in (FailedFallbackAt + 1)..Len(last.sends) :
              last.sends[k].text.kind = "critical_error"

\* reached: the fallback send raised after a failed restricted-media fetch,
\* and the error report could not be sent either
C15_Witness ==
    /\ Delivered
    /\ last.event.noforwards
    /\ FailedFallbackAt = 1
    /\ Len(last.sends) = 2
    /\ last.sends[2].text.kind = "critical_error"
    /\ ~last.sends[2].ok
    /\ last.critical = 2
    /\ ~last.caught

\* C16: when deliver returns, every media context it entered (stored file or
\* dynamic fetch) has been exited exactly once, whichever way its branch ended,
\* and no context has been exited twice.
C16_HandlesReleasedOnce ==
    (last.type = "new" /\ last.passed) =>
        /\ \A i \in 1..Len(last.handles) :
              /\ last.handles[i].exits <= 1
              /\ (last.handles[i].entered => last.handles[i].exits = 1)
        /\ last.exited = Len(last.handles)

\* reached: a sticker whose stored file was opened and whose send raised, then
\* a fetched file whose send raised too: two contexts, each exited once
C16_Witness ==
    /\ Delivered
    /\ last.event.is_sticker
    /\ Len(last.handles) = 2
    /\ last.handles[1] = [kind |-> "file", entered |-> TRUE, exits |-> 1]
    /\ last.handles[2] = [kind |-> "fetch", entered |-> TRUE, exits |-> 1]
    /\ ~last.sends[1].ok
    /\ ~last.sends[2].ok

(***************************************************************************)
(* Properties of _format_output_message (SpecFormat).                      *)
(***************************************************************************)
\* the log entry of the last new or edited message, when one was formatted
EntrySent == Routed /\ last.passed /\ last.sends[1].text.kind = "entry"

HasMarker(body) == \E i \in DOMAIN body : body[i] = TruncationMarker

\* C17: the body of a formatted entry, as it stands in the output with the
\* truncation marker and the escapes, is never longer than the cap; a text of
\* exactly the cap is not cut and one of cap + 1 is.
C17_BodyWithinCap ==
    EntrySent =>
        /\ TextLen(last.sends[1].text.body) <= BODY_CAP
        /\ (TextLen(last.event.text) = BODY_CAP => ~HasMarker(last.sends[1].text.body))
        /\ (TextLen(last.event.text) = BODY_CAP + 1 => HasMarker(last.sends[1].text.body))

\* C18: when a mention lookup fails while a new or edited message is being
\* formatted, what is sent is still the full log entry with the body of the
\* message; the formatting is not aborted.
C18_MentionFailureKeepsEntry ==
    (Routed /\ last.passed /\ last.mention_failed) =>
        /\ last.sends[1].text.kind = "entry"
        /\ last.sends[1].text.id = last.event.id
        /\ last.sends[1].text.body = EscapeMarkdown(Truncate(last.event.text))

(***************************************************************************)
(* Properties of _process_deleted_message (Spec).                          *)
(***************************************************************************)
\* the last call of process was a deletion event admitted by the rate limiter
Admitted == Gated /\ last.step = "admitted"

\* C19: for every id of an admitted deletion event whose lookup returned
\* NotFound, a content-unknown entry naming that id is sent; when the chat
\* mention lookup for it fails the entry carries the raw chat id instead.
C19_NotFoundSendsContentUnknown ==
    Admitted =>
        /\ Len(last.sends) = Len(last.lookups)
        /\ \A k \in 1..Len(last.lookups) :
              ~last.lookups[k].result.present =>
                 /\ last.sends[k].text.kind = "content_unknown"
                 /\ last.sends[k].text.id = last.lookups[k].id
                 /\ last.sends[k].text.chat =
                       (IF last.event.chat_id = None THEN "none"
                        ELSE IF last.lookups[k].mention_failed THEN "raw_id"
                        ELSE "mention")

\* reached: the lookup of id 2 in chat -3 found nothing, the chat mention
\* lookup failed, and the entry was sent with the raw chat id
C19_Witness ==
    /\ Admitted
    /\ last.event.chat_id = -3
    /\ Len(last.lookups) >= 1
    /\ last.lookups[1].id = 2
    /\ last.lookups[1].reads = 2
    /\ ~last.lookups[1].result.present
    /\ last.lookups[1].mention_failed
    /\ last.sends[1].text = [kind |-> "content_unknown", event_type |-> "deleted",
                             id |-> 2, chat |-> "raw_id"]
    /\ last.sends[1].ok

\* the store with the records saved by the archiving handler during the waits
\* of the given lookups
RECURSIVE WithArrivals(_, _)
WithArrivals(store, lookups) ==
    IF lookups = <<>> THEN store
    ELSE WithArrivals(IF Head(lookups).arrived.present
                      THEN [store EXCEPT ![Head(lookups).id] = Head(lookups).arrived]
                      ELSE store,
                      Tail(lookups))

RECURSIVE ReadsOf(_)
ReadsOf(lookups) ==
    IF lookups = <<>> THEN 0 ELSE Head(lookups).reads + ReadsOf(Tail(lookups))

\* C20: processing a deletion event leaves the records of the store as they
\* were, on every path (filtered out, refused, found, not found, failed send):
\* the store differs only by what the archiving handler saved meanwhile, and
\* the reads of the lookups are the only store calls.
C20_DeletionNeverWrites ==
    [][last'.type = "deleted" =>
          /\ db' = WithArrivals(db, last'.lookups)
          /\ last'.reads = ReadsOf(last'.lookups)]_vars

\* reached: a two-id event in which id 2 was not found, id 1 was found and
\* logged, and the store holds what it held at the start
C20_Witness ==
    /\ Admitted
    /\ Len(last.lookups) = 2
    /\ ~last.lookups[1].result.present
    /\ last.lookups[2].result.present
    /\ last.sends[2].ok
    /\ last.reads = 3
    /\ db = Store1

\* a send of the stored media file succeeded
StoredSent ==
    \E k \in 1..Len(last.sends) : last.sends[k].file = "stored" /\ last.sends[k].ok

\* C21: for a sticker, whenever the stored-media attempt did not end in a
\* successful send (no record, no media path, missing file, a store read that
\* raised, a send that raised), the dynamic fetch is attempted next.
C21_StickerStoredFailureTriesFetch ==
    (Delivered /\ last.event.is_sticker /\ ~StoredSent) =>
        /\ last.fetches = 1
        /\ \E i \in 1..Len(last.steps) : last.steps[i] \in FetchSteps

\* the last call of process delivered a new message that carries no media
DeliveredText == last.type = "new" /\ last.passed /\ ~last.event.media

FormattedKinds == {"entry", "format_error"}

\* what C22 states of every send-free part of the call
NoMediaTouchesNothing ==
    /\ last.reads = 0
    /\ last.fetches = 0
    /\ last.handles = <<>>
    /\ last.sends # <<>>
    /\ last.sends[1].file = "none"
    /\ last.sends[1].text.kind \in FormattedKinds
    /\ last.sends[1].text.id = last.event.id

\* C22 as stated: for a message without media, deliver reads nothing, fetches
\* nothing, and the formatted text without attachment is the only send it
\* attempts.
C22_NoMediaOneSend ==
    DeliveredText => NoMediaTouchesNothing /\ Len(last.sends) = 1

\* C22 amended: ... the formatted text without attachment is its first send,
\* nothing follows when that send succeeds, and when it raises exactly one
\* more send follows, the critical-error report.
C22_NoMediaTextThenReport ==
    DeliveredText =>
        /\ NoMediaTouchesNothing
        /\ (last.sends[1].ok => Len(last.sends) = 1)
        /\ (~last.sends[1].ok =>
               /\ Len(last.sends) = 2
               /\ last.sends[2].text.kind = "critical_error"
               /\ last.sends[2].file = "none")

\* reached: the text send of a message without media raised and the report
\* was sent
C22_Witness ==
    /\ DeliveredText
    /\ ~last.sends[1].ok
    /\ Len(last.sends) = 2
    /\ last.sends[2].ok
    /\ last.reads = 0

(***************************************************************************)
(* Properties of _apply_deletion_rate_limit, step by step (SpecRate).      *)
(***************************************************************************)
\* the step is a deletion event whose gate check was made and not refused by
\* the cooldown
GateStepNotPaused ==
    /\ now' = now
    /\ last'.type = "deleted"
    /\ last'.passed
    /\ last'.step \in {"admitted", "triggered"}

\* the timestamps of a sequence that are later than bound, in order
RECURSIVE LaterThan(_, _)
LaterThan(timestamps, bound) ==
    IF timestamps = <<>> THEN <<>>
    ELSE IF Head(timestamps) > bound
    THEN <<Head(timestamps)>> \o LaterThan(Tail(timestamps), bound)
    ELSE LaterThan(Tail(timestamps), bound)

Ordered(timestamps) ==
    \A i \in 1..(Len(timestamps) - 1) : timestamps[i] <= timestamps[i + 1]

GateStepWhilePaused ==
    /\ now' = now
    /\ last'.type = "deleted"
    /\ last'.passed
    /\ rate_limit_paused_until # None
    /\ now < rate_limit_paused_until

\* C24: a check made while paused refuses the event and leaves the timestamps
\* and pausedUntil as they were; nothing is read and nothing is sent.
C24_PausedCheckChangesNothing ==
    [][GateStepWhilePaused =>
          /\ last'.step = "paused"
          /\ deletion_timestamps' = deletion_timestamps
          /\ rate_limit_paused_until' = rate_limit_paused_until
          /\ last'.sends = <<>>
          /\ last'.lookups = <<>>]_vars

\* reached: an event refused inside the pause, with the timestamps that set
\* the pause still recorded
C24_Witness ==
    /\ Gated
    /\ last.step = "paused"
    /\ last.paused_before = rate_limit_paused_until
    /\ now < rate_limit_paused_until
    /\ Len(deletion_timestamps) = deletion_rate_limit_threshold + 1
    /\ last.sends = <<>>

(***************************************************************************)
(* Frame of the rate limiter's state (Spec).                               *)
(***************************************************************************)
\* the deletion event of the step is one the filter rules reject: its chat is
\* known and is ignored or is not a forwarded group
RejectedDeletion(o) ==
    /\ o.type = "deleted"
    /\ o.resolved # None
    /\ (o.resolved \in ignored_ids \/ o.resolved \notin forward_group_ids)

\* C25: a step that processes a new message, an edited message, an event of
\* another type, or a deletion event the filter rejects leaves the timestamp
\* sequence and pausedUntil unchanged and sends no pause notice.
C25_OnlyGateWritesRateState ==
    [][(last'.type \in {"new", "edited", "other"} \/ RejectedDeletion(last')) =>
          /\ deletion_timestamps' = deletion_timestamps
          /\ rate_limit_paused_until' = rate_limit_paused_until
          /\ PauseNoticesIn(last'.sends) = 0]_vars

\* reached: a deletion event of a chat that is not forwarded, rejected after
\* an earlier event was admitted and recorded
C25_Witness ==
    /\ RejectedDeletion(last)
    /\ ~last.passed
    /\ last.sends = <<>>
    /\ Len(deletion_timestamps) = 1
    /\ rate_limit_paused_until = None


(***************************************************************************)
(* C26.  Deletion events processed concurrently.  A call that arrived      *)
(* later found an earlier call suspended in the notice send when the       *)
(* earlier call is among its notifiers.                                    *)
(***************************************************************************)
Checked(k) == tasks[k].gate > 0

\* C26 as stated: every call has made its filter decision and all its reads and
\* writes of the limiter before it first suspends, the calls are checked in
\* arrival order, and a call that arrives while an earlier one is suspended in
\* the notice send finds the pause set and is refused without a notice
C26_GatedBeforeSuspensionAlwaysRefused ==
    \A k \in DOMAIN tasks :
        /\ tasks[k].pc # "start" /\ ~tasks[k].late
        /\ \A j \in 1..(k - 1) : Checked(j) /\ Checked(k) => tasks[j].gate < tasks[k].gate
        /\ tasks[k].notifiers # {} =>
              /\ tasks[k].paused_seen # None
              /\ tasks[k].step = "paused"
              /\ tasks[k].notices = 0

\* C26 as the code has it: the same, the refusal holding for a call that
\* arrives before the pause of the suspended call has run out
C26_GatedBeforeSuspensionRefusedInPause ==
    \A k \in DOMAIN tasks :
        /\ tasks[k].pc # "start" /\ ~tasks[k].late
        /\ \A j \in 1..(k - 1) : Checked(j) /\ Checked(k) => tasks[j].gate < tasks[k].gate
        /\ \A j \in tasks[k].notifiers :
              tasks[k].time < tasks[j].time + deletion_pause_duration =>
                  /\ tasks[k].paused_seen = tasks[j].time + deletion_pause_duration
                  /\ tasks[k].step = "paused"
                  /\ tasks[k].notices = 0

\* C26 witness: a call is still suspended in the notice send, and a call that
\* arrived meanwhile, within the pause, passed the filter and was refused
C26_Witness ==
    \E k \in DOMAIN tasks : \E j \in tasks[k].notifiers :
        /\ tasks[j].pc = "notify"
        /\ tasks[k].time < tasks[j].time + deletion_pause_duration
        /\ tasks[k].step = "paused"


(***************************************************************************)
(* C27.  The chat of the record reported by a deletion entry.              *)
(***************************************************************************)
\* C27: every record whose content a deletion entry shows belongs to the chat
\* the event was resolved to, when that chat is known, whether the event
\* supplied the chat id or it was derived from the peer
C27_EntryOnlyForRecordOfResolvedChat ==
    last.type = "deleted" /\ last.passed =>
        \A k \in 1..Len(last.lookups) :
            last.lookups[k].result.present /\ last.resolved # None
                => last.lookups[k].result.chat_id = last.resolved

\* the same for the events that supply their chat id
C27_EntryOnlyForRecordOfSuppliedChat ==
    last.type = "deleted" /\ last.passed =>
        \A k \in 1..Len(last.lookups) :
            last.lookups[k].result.present /\ last.event.chat_id # None
                => last.lookups[k].result.chat_id = last.event.chat_id


(***************************************************************************)
(* C28.  The loop over the ids of an admitted deletion event.              *)
(***************************************************************************)
\* the ids are handled in the order carried, one lookup then one send each,
\* a send that raises is the last thing done, and process returns normally
HandledInOrder ==
    /\ Len(last.lookups) <= Len(last.event.deleted_ids)
    /\ Len(last.sends) = Len(last.lookups)
    /\ \A k \in 1..Len(last.lookups) :
          /\ last.lookups[k].id = last.event.deleted_ids[k]
          /\ last.sends[k].text.id = last.lookups[k].id
          /\ last.lookups[k].reads >= 1
          /\ (~last.sends[k].ok => k = Len(last.sends))
    /\ ((\A k \in 1..Len(last.sends) : last.sends[k].ok)
            => Len(last.lookups) = Len(last.event.deleted_ids))
    /\ ~last.raised

Max(a, b) == IF a >= b THEN a ELSE b

QuietPeriod == Max(deletion_rate_limit_window, deletion_pause_duration)

\* the event last checked came at least the quiet period after the check
\* before it
CheckedAfterQuiet ==
    /\ Gated
    /\ last.prev_check # None
    /\ last.time >= last.prev_check + QuietPeriod

\* C29: with a threshold of at least 1, a deletion event checked at least
\* max(window, pause) after the previous check is admitted, whatever the state
\* of the limiter was, and leaves paused_until unset and the timestamp sequence
\* holding its own timestamp only
C29_RecoversAfterQuiet ==
    deletion_rate_limit_threshold >= 1 /\ CheckedAfterQuiet =>
        /\ last.step = "admitted"
        /\ rate_limit_paused_until = None
        /\ deletion_timestamps = <<last.time>>

\* reached: the pause was set, and the event that came exactly the quiet period
\* after the check before it was admitted and left only its own timestamp
C29_Witness ==
    /\ CheckedAfterQuiet
    /\ last.time = last.prev_check + QuietPeriod
    /\ last.paused_before # None
    /\ last.step = "admitted"
    /\ deletion_timestamps = <<now>>


(***************************************************************************)
(* C30.  Successful sends of one call of _send_message_with_media.         *)
(***************************************************************************)
SuccessfulSends == {k \in 1..Len(last.sends) : last.sends[k].ok}

\* C30: whatever the collaborators do, at most one send of a call that
\* delivers a new message succeeds
C30_AtMostOneSuccessfulSend ==
    last.type = "new" /\ last.passed => Cardinality(SuccessfulSends) <= 1

\* the same for the calls in which no __aexit__ raised after a fetch that
\* returned a path
C30_AtMostOneSuccessfulSendCleanExit ==
    last.type = "new" /\ last.passed /\ StepAt("aexit_raise") = 0
        => Cardinality(SuccessfulSends) <= 1


(***************************************************************************)
(* C31.  Edited and deleted events are logged as text.                     *)
(***************************************************************************)
\* the last call entered no part of _send_message_with_media: it fetched no
\* media and obtained no media context
NoMediaDelivery ==
    /\ last.fetches = 0
    /\ last.handles = <<>>
    /\ last.entered = 0
    /\ last.steps = <<>>
    /\ \A k \in 1..Len(last.sends) : last.sends[k].file = "none"

\* C31: a forwarded edit makes exactly one send attempt, of the formatted text
\* without attachment, and reads nothing from the store; neither an edit nor a
\* deletion fetches media, obtains a media handle or sends a file, whether or
\* not the message carries media; only new messages go through
\* _send_message_with_media
C31_EditsAndDeletionsTextOnly ==
    /\ (last.type = "edited" /\ last.passed =>
            /\ Len(last.sends) = 1
            /\ last.sends[1].text = FormatOutputMessage("edited", last.event, FALSE,
                                                        last.mention_failed)
            /\ last.reads = 0
            /\ NoMediaDelivery)
    /\ (last.type \in {"edited", "deleted"} => NoMediaDelivery)
    /\ (last.steps # <<>> => last.type = "new")

\* reached: the forwarded edit of a sticker message whose media is in the
\* store, logged by one successful send without a file
C31_Witness ==
    /\ last.type = "edited"
    /\ last.passed
    /\ last.event.media
    /\ last.event.is_sticker
    /\ db[last.event.id].present
    /\ db[last.event.id].media_path
    /\ Len(last.sends) = 1
    /\ last.sends[1].ok
    /\ last.sends[1].file = "none"


(***************************************************************************)
(* C32.  What the archiving handler saves.                                 *)
(***************************************************************************)
\* the last call of handle_new_message saved exactly one record, that of its
\* event, without an edit time
SavedOnce ==
    /\ Len(last.saves) = 1
    /\ last.saves[1].id = last.event.id
    /\ last.saves[1].chat_id = last.event.chat_id
    /\ last.saves[1].edited_time = None

\* C32: handle_new_message saves exactly one record, with the event's message
\* id and chat id and no edit time, for a NewMessage event whose sender and chat
\* are not among the ignored ids of the handler and that is not a special link
\* message; it saves nothing for any other event
C32_SavesUnlessIgnoredByHandler ==
    last.type = "archive" =>
        IF /\ last.event.is_new
           /\ last.event.from_id \notin ignored_ids
           /\ last.event.chat_id \notin ignored_ids
           /\ ~IsSpecialLinkMessage(last.event)
        THEN SavedOnce
        ELSE last.saves = <<>>

\* the same with the ignored ids of the module in place of the handler's
C32_SavesUnlessIgnoredByModule ==
    last.type = "archive" =>
        IF /\ last.event.is_new
           /\ last.event.from_id \notin IGNORED_IDS
           /\ last.event.chat_id \notin IGNORED_IDS
           /\ ~IsSpecialLinkMessage(last.event)
        THEN SavedOnce
        ELSE last.saves = <<>>

====
